---- MODULE Spec2Model ----
(***************************************************************************)
(* Model of the task-management REST API (api-tareas-docker).              *)
(*                                                                         *)
(* Storage is the two relational tables `users` and `tasks`.  A handler    *)
(* is an async function: every `await` of a storage call is one atomic     *)
(* step, and other requests may run between two steps of one handler.     *)
(* A request that has issued a storage call and still has calls to make    *)
(* is kept in `pending` with the handler's local variables.  The response  *)
(* a step sends is kept in `resp` until the next step of any request.      *)
(*                                                                         *)
(* Storage calls of the handlers are assumed to succeed; the rate limiter  *)
(* mounted in front of /api/ is not part of the model.  The process        *)
(* around the handlers (startServer, connectWithRetry, gracefulShutdown)   *)
(* is kept in the variables of `lifecycle`.                                *)
(***************************************************************************)
EXTENDS Integers, Sequences, FiniteSets, TLC

VARIABLES
    users,       \* rows of table users
    tasks,       \* rows of table tasks
    nextUserId,  \* serial of users.id
    nextTaskId,  \* serial of tasks.id
    now,         \* wall clock
    pending,     \* requests in flight between two storage calls
    resp,        \* response sent by the last step, NoResp when it sent none
    startup,     \* position of startServer and of its connectWithRetry loop
    server,      \* the HTTP server: "none", "listening", "closing", "closed"
    conns,       \* connection |-> "closed", "fresh" (no request yet) or "used"
    closers,     \* the server.close callbacks of gracefulShutdown, in order
    pool,        \* the connection pool: "open", "closing", "closed", "failed"
    dbUp,        \* whether PostgreSQL answers
    exitCode     \* code of process.exit, NoExit while the process runs

\* The process around the request handlers.
lifecycle == <<startup, server, conns, closers, pool, dbUp, exitCode>>

vars == <<users, tasks, nextUserId, nextTaskId, now, pending, resp,
          startup, server, conns, closers, pool, dbUp, exitCode>>

----------------------------------------------------------------------------
\* Bounds of the model.

\* Number of task ids the serial hands out.
MaxTasks == 2
\* Number of requests that may be between two storage calls at once.
MaxInflight == 2
\* Last instant of the clock.
MaxClock == 1

----------------------------------------------------------------------------
\* The process.

\* connectWithRetry's defaults, which startServer calls it with.
Retries == 10
Delay == 5000

\* exitCode of a process that has not exited.
NoExit == -1

\* exitCode of a process that a signal has terminated: it has no exit code.
Signalled == -2

\* Number of signals delivered to the process.
MaxSignals == 2

\* Number of connections open to the server at once.
MaxConns == 2

\* The process once startServer has connected at its first attempt and
\* listens with a client connected: the state the request handlers run in.
Serving ==
    /\ startup = [pc |-> "running", i |-> 0, attempts |-> 1, failures |-> 0,
                  slept |-> 0, connected |-> TRUE, development |-> FALSE]
    /\ server = "listening"
    /\ conns = [c \in 1..MaxConns |-> IF c = 1 THEN "used" ELSE "closed"]
    /\ closers = <<>>
    /\ pool = "open"
    /\ dbUp = TRUE
    /\ exitCode = NoExit

----------------------------------------------------------------------------
\* Values.

NoResp == [op |-> "none"]

\* Text is a sequence of characters; a NULL text column and the empty text
\* are both the empty sequence (no operation of the API tells them apart).
NoText == <<>>
\* A NULL dueDate.
NoDate == 0
\* A NULL tags column.
NoTags == <<>>

TitleA  == <<"a">>
TitleAb == <<"A", "b">>
DescB   == <<"b">>

Priorities == {"low", "medium", "high"}

\* The fields updateTask copies from the request body.
UpdatableFields == {"title", "description", "completed", "dueDate", "priority", "tags"}

\* The two users every task specification starts with.
SeedUsers ==
    { [id |-> 1, name |-> "ana", email |-> "a@x", password |-> <<"bcrypt", "Pw1">>,
       active |-> TRUE, lastAccess |-> 0],
      [id |-> 2, name |-> "bob", email |-> "b@x", password |-> <<"bcrypt", "Pw2">>,
       active |-> TRUE, lastAccess |-> 0] }

\* Ids a request may name: every id the serial can hand out.
TaskIds == 1..MaxTasks

\* Request bodies of POST /api/tasks as the controller receives them.
CreateBodies ==
    { [title |-> TitleA],
      [title |-> TitleAb, description |-> DescB, dueDate |-> 2, priority |-> "low",
       tags |-> <<"x">>, completed |-> TRUE] }

\* Request bodies of PUT /api/tasks/:id as the controller receives them.
UpdateBodies ==
    { [completed |-> TRUE],
      [title |-> TitleAb, priority |-> "high", dueDate |-> 1, userId |-> 2, id |-> 2] }

----------------------------------------------------------------------------
\* Helpers.

\* body[f], or d when the body has no field f (a destructured undefined).
Opt(body, f, d) == IF f \in DOMAIN body THEN body[f] ELSE d

\* The smallest request id not in flight.
FreeRid == CHOOSE i \in 1..(MaxInflight + 1) :
              /\ \A r \in pending : r.rid # i
              /\ \A j \in 1..(i - 1) : \E r \in pending : r.rid = j

\* Task.findOne({ where: { id, userId } }): the rows that match.
FindOwnedAnyUser(id, userId) == { t \in tasks : t.id = id }
FindOwned(id, userId) == { t \in tasks : t.id = id /\ t.userId = userId }

\* The row Task.create inserts: the model's defaults fill what the
\* controller passes as undefined; completed is not passed at all.
NewTask(id, userId, body, t) ==
    [id          |-> id,
     userId      |-> userId,
     title       |-> body.title,
     description |-> Opt(body, "description", NoText),
     completed   |-> FALSE,
     dueDate     |-> Opt(body, "dueDate", NoDate),
     priority    |-> Opt(body, "priority", "medium"),
     tags        |-> Opt(body, "tags", NoTags),
     createdAt   |-> t]

\* The column a field is reset to when it is written as NULL.
NullOf(f) ==
    CASE f = "title" -> NoText
      [] f = "description" -> NoText
      [] f = "completed" -> FALSE
      [] f = "dueDate" -> NoDate
      [] f = "priority" -> "medium"
      [] OTHER -> NoTags

\* task.update({title, description, completed, dueDate, priority, tags}):
\* a field the body does not hold is undefined and is left out of the write.
UpdateFieldsOverwriting(t, body) ==
    [f \in DOMAIN t |->
        IF f \in UpdatableFields
        THEN (IF f \in DOMAIN body THEN body[f] ELSE NullOf(f))
        ELSE t[f]]
UpdateFields(t, body) ==
    [f \in DOMAIN t |->
        IF f \in UpdatableFields /\ f \in DOMAIN body THEN body[f] ELSE t[f]]

\* Task.count({ where: { userId } }).
CountTotal(userId) == Cardinality({ t \in tasks : t.userId = userId })

\* Task.count({ where: { userId, completed } }).
CountCompleted(userId, completed) ==
    Cardinality({ t \in tasks : t.userId = userId /\ t.completed = completed })

\* SELECT priority, COUNT(id) ... GROUP BY priority, reduced to an object:
\* only the priorities that have rows are keys.
ByPriority(userId) ==
    [p \in { t.priority : t \in { x \in tasks : x.userId = userId } } |->
        Cardinality({ t \in tasks : t.userId = userId /\ t.priority = p })]

RECURSIVE SumOver(_, _)
SumOver(f, keys) ==
    IF keys = {} THEN 0
    ELSE LET k == CHOOSE x \in keys : TRUE
         IN f[k] + SumOver(f, keys \ {k})

----------------------------------------------------------------------------
\* Task controllers.  `u` is req.user.id, the user protectRoute resolved;
\* `rest` is what stays in flight once this request has answered.

\* createTask: one insert, then 201.
CreateTask(u, body, rest) ==
    /\ nextTaskId <= MaxTasks
    /\ LET t == NewTask(nextTaskId, u, body, now)
       IN /\ tasks' = tasks \cup {t}
          /\ resp' = [op |-> "createTask", user |-> u, status |-> 201, task |-> t]
    /\ nextTaskId' = nextTaskId + 1
    /\ pending' = rest
    /\ UNCHANGED <<users, nextUserId, now>>
    /\ UNCHANGED lifecycle

\* getTask: one findOne, 404 when no owned row matches.
GetTask(u, id, rest) ==
    /\ LET found == FindOwned(id, u)
       IN resp' = IF found = {}
                  THEN [op |-> "getTask", user |-> u, id |-> id, status |-> 404]
                  ELSE [op |-> "getTask", user |-> u, id |-> id, status |-> 200,
                        task |-> CHOOSE t \in found : TRUE]
    /\ pending' = rest
    /\ UNCHANGED <<users, tasks, nextUserId, nextTaskId, now>>
    /\ UNCHANGED lifecycle

\* updateTask up to its findOne: 404, or suspended holding the instance.
UpdateTaskFind(u, id, body, rest) ==
    /\ LET found == FindOwned(id, u)
       IN IF found = {}
          THEN /\ resp' = [op |-> "updateTask", user |-> u, id |-> id, body |-> body,
                           status |-> 404]
               /\ pending' = rest
          ELSE /\ Cardinality(rest) < MaxInflight
               /\ resp' = NoResp
               /\ pending' = rest \cup
                    { [rid |-> FreeRid, op |-> "updateTask", user |-> u, id |-> id,
                       body |-> body, task |-> CHOOSE t \in found : TRUE] }
    /\ UNCHANGED <<users, tasks, nextUserId, nextTaskId, now>>
    /\ UNCHANGED lifecycle

\* updateTask from task.update on: UPDATE ... WHERE id writes the body's
\* fields into the row if it is still there, and 200 carries the instance.
UpdateTaskWrite(r) ==
    /\ r \in pending /\ r.op = "updateTask"
    /\ tasks' = { IF t.id = r.task.id THEN UpdateFields(t, r.body) ELSE t : t \in tasks }
    /\ resp' = [op |-> "updateTask", user |-> r.user, id |-> r.id, body |-> r.body,
                status |-> 200, task |-> UpdateFields(r.task, r.body)]
    /\ pending' = pending \ {r}
    /\ UNCHANGED <<users, nextUserId, nextTaskId, now>>
    /\ UNCHANGED lifecycle

\* deleteTask up to its findOne.
DeleteTaskFind(u, id, rest) ==
    /\ LET found == FindOwned(id, u)
       IN IF found = {}
          THEN /\ resp' = [op |-> "deleteTask", user |-> u, id |-> id, status |-> 404]
               /\ pending' = rest
          ELSE /\ Cardinality(rest) < MaxInflight
               /\ resp' = NoResp
               /\ pending' = rest \cup
                    { [rid |-> FreeRid, op |-> "deleteTask", user |-> u, id |-> id,
                       task |-> CHOOSE t \in found : TRUE] }
    /\ UNCHANGED <<users, tasks, nextUserId, nextTaskId, now>>
    /\ UNCHANGED lifecycle

\* deleteTask from task.destroy on: DELETE ... WHERE id, then 200.
DeleteTaskDestroy(r) ==
    /\ r \in pending /\ r.op = "deleteTask"
    /\ tasks' = { t \in tasks : t.id # r.task.id }
    /\ resp' = [op |-> "deleteTask", user |-> r.user, id |-> r.id, status |-> 200]
    /\ pending' = pending \ {r}
    /\ UNCHANGED <<users, nextUserId, nextTaskId, now>>
    /\ UNCHANGED lifecycle

\* getStatistics, first query: the total.
StatsTotal(u, rest) ==
    /\ Cardinality(rest) < MaxInflight
    /\ pending' = rest \cup
         { [rid |-> FreeRid, op |-> "getStatistics", user |-> u, pc |-> "completed",
            total |-> CountTotal(u), completed |-> 0, pend |-> 0] }
    /\ resp' = NoResp
    /\ UNCHANGED <<users, tasks, nextUserId, nextTaskId, now>>
    /\ UNCHANGED lifecycle

\* getStatistics, second query: the completed count.
StatsCompleted(r) ==
    /\ r \in pending /\ r.op = "getStatistics" /\ r.pc = "completed"
    /\ pending' = (pending \ {r}) \cup
         { [r EXCEPT !.pc = "pending",
                     !.completed = CountCompleted(r.user, TRUE)] }
    /\ resp' = NoResp
    /\ UNCHANGED <<users, tasks, nextUserId, nextTaskId, now>>
    /\ UNCHANGED lifecycle

\* getStatistics, third query: the pending count.
StatsPending(r) ==
    /\ r \in pending /\ r.op = "getStatistics" /\ r.pc = "pending"
    /\ pending' = (pending \ {r}) \cup
         { [r EXCEPT !.pc = "byPriority",
                     !.pend = CountCompleted(r.user, FALSE)] }
    /\ resp' = NoResp
    /\ UNCHANGED <<users, tasks, nextUserId, nextTaskId, now>>
    /\ UNCHANGED lifecycle

\* getStatistics, fourth query (the grouped count) and the response.
StatsByPriority(r) ==
    /\ r \in pending /\ r.op = "getStatistics" /\ r.pc = "byPriority"
    /\ resp' = [op |-> "getStatistics", user |-> r.user, status |-> 200,
                total |-> r.total, completed |-> r.completed, pending |-> r.pend,
                byPriority |-> ByPriority(r.user)]
    /\ pending' = pending \ {r}
    /\ UNCHANGED <<users, tasks, nextUserId, nextTaskId, now>>
    /\ UNCHANGED lifecycle

----------------------------------------------------------------------------
\* The task service under requests of already authenticated users.

UserIds == { u.id : u \in SeedUsers }

InitTasks ==
    /\ users = SeedUsers
    /\ tasks = {}
    /\ nextUserId = 3
    /\ nextTaskId = 1
    /\ now = 0
    /\ pending = {}
    /\ resp = NoResp
    /\ Serving

\* Every task route except the listing and the statistics.
NextTasks ==
    \/ \E u \in UserIds, b \in CreateBodies : CreateTask(u, b, pending)
    \/ \E u \in UserIds, id \in TaskIds : GetTask(u, id, pending)
    \/ \E u \in UserIds, id \in TaskIds, b \in UpdateBodies : UpdateTaskFind(u, id, b, pending)
    \/ \E r \in pending : UpdateTaskWrite(r)
    \/ \E u \in UserIds, id \in TaskIds : DeleteTaskFind(u, id, pending)
    \/ \E r \in pending : DeleteTaskDestroy(r)

Spec == InitTasks /\ [][NextTasks]_vars

\* The statistics route among the routes that change the caller's tasks.
NextStats ==
    \/ \E u \in UserIds, b \in CreateBodies : CreateTask(u, b, pending)
    \/ \E u \in UserIds, id \in TaskIds, b \in UpdateBodies : UpdateTaskFind(u, id, b, pending)
    \/ \E r \in pending : UpdateTaskWrite(r)
    \/ \E u \in UserIds, id \in TaskIds : DeleteTaskFind(u, id, pending)
    \/ \E r \in pending : DeleteTaskDestroy(r)
    \/ \E u \in UserIds : StatsTotal(u, pending)
    \/ \E r \in pending : StatsCompleted(r)
    \/ \E r \in pending : StatsPending(r)
    \/ \E r \in pending : StatsByPriority(r)

SpecStats == InitTasks /\ [][NextStats]_vars

----------------------------------------------------------------------------
\* The listing route, GET /api/tasks.
\*
\* A JavaScript number is held as m * 10^e.  e is 0 for every number below
\* 10^21, which prints as its decimal digits; a number of 10^21 or more
\* has e = HugeExp and prints in exponent notation ("1e+21").  A query
\* value is the string of the same digits.

\* The exponent from which Number.prototype.toString uses exponent notation.
HugeExp == 21

Num(m) == [m |-> m, e |-> 0]

\* "1" followed by HugeExp zeros: a page the route's isInt({min: 1}) accepts.
HugePage == [m |-> 1, e |-> HugeExp]

RECURSIVE LeadingDigit(_)
LeadingDigit(k) == IF k < 10 THEN k ELSE LeadingDigit(k \div 10)

\* n - 1: a double of 10^21 or more is more than 1 away from its
\* neighbours, the difference rounds back to it.
Minus1(n) == IF n.e = 0 THEN [n EXCEPT !.m = n.m - 1] ELSE n

\* n * k for a small k.
Times(n, k) == [m |-> n.m * k.m, e |-> n.e + k.e]

\* parseInt(s) of a string of digits: the number with these digits.
ParseIntDigits(n) == n

\* parseInt(x) of a number x: x is converted to a string and the leading
\* digits of the string are read.
ParseInt(n) == IF n.e = 0 THEN n ELSE Num(LeadingDigit(n.m))

\* Math.ceil(count / limit) for a count and a limit below 10^21.
CeilDiv(count, limit) == (count + limit - 1) \div limit

\* Lower case of a character, as ILIKE compares.
Lower(c) == CASE c = "A" -> "a" [] c = "B" -> "b" [] OTHER -> c

\* text ILIKE '%s%' for an s of letters.
ILike(text, s) ==
    \E i \in 0..(Len(text) - Len(s)) :
        \A k \in 1..Len(s) : Lower(text[i + k]) = Lower(s[k])

\* The where clause getTasks builds from req.query.
Where(u, q, t) ==
    /\ t.userId = u
    /\ ("completed" \in DOMAIN q => t.completed = (q.completed = "true"))
    /\ ("priority" \in DOMAIN q => t.priority = q.priority)
    /\ ("search" \in DOMAIN q => ILike(t.title, q.search) \/ ILike(t.description, q.search))

\* ORDER BY completed ASC, dueDate ASC, createdAt DESC on PostgreSQL: a
\* must come before b.  ASC puts false before true and NULL last.
RowBeforeNullsFirst(a, b) ==
    \/ ~a.completed /\ b.completed
    \/ /\ a.completed = b.completed
       /\ \/ a.dueDate < b.dueDate
          \/ a.dueDate = b.dueDate /\ a.createdAt > b.createdAt
RowBefore(a, b) ==
    \/ ~a.completed /\ b.completed
    \/ /\ a.completed = b.completed
       /\ \/ a.dueDate # NoDate /\ b.dueDate = NoDate
          \/ a.dueDate # NoDate /\ b.dueDate # NoDate /\ a.dueDate < b.dueDate
          \/ a.dueDate = b.dueDate /\ a.createdAt > b.createdAt

\* The orders the database may return the rows in: rows the ORDER BY
\* does not tell apart come in any order.
OrderedRows(rows) ==
    { s \in [1..Cardinality(rows) -> rows] :
        /\ \A i, j \in DOMAIN s : i # j => s[i] # s[j]
        /\ \A i, j \in DOMAIN s : i < j => ~RowBefore(s[j], s[i]) }

\* OFFSET offset LIMIT limit of the ordered rows.
Page(ordered, offset, limit) ==
    IF offset >= Len(ordered) THEN <<>>
    ELSE SubSeq(ordered, offset + 1,
                IF offset + limit < Len(ordered) THEN offset + limit ELSE Len(ordered))

\* getTasks: one findAndCountAll, then 200 with the page and the counts.
GetTasks(u, q, rest) ==
    /\ LET page    == Opt(q, "page", Num(1))
           limit   == Opt(q, "limit", Num(10))
           offset  == Times(Minus1(page), limit)
           matched == { t \in tasks : Where(u, q, t) }
           count   == Cardinality(matched)
       IN \E ordered \in OrderedRows(matched) :
            resp' = [op |-> "getTasks", user |-> u, query |-> q, status |-> 200,
                     tasks |-> Page(ordered, ParseInt(offset).m, ParseInt(limit).m),
                     total |-> count,
                     page |-> ParseIntDigits(page),
                     limit |-> ParseInt(limit).m,
                     totalPages |-> CeilDiv(count, limit.m)]
    /\ pending' = rest
    /\ UNCHANGED <<users, tasks, nextUserId, nextTaskId, now>>
    /\ UNCHANGED lifecycle

\* Number of rows of the tables the listing is checked on.
MaxRows == 2

\* Bodies the listed tasks were created with.
ListBodies == CreateBodies \cup { [title |-> TitleA, dueDate |-> 1, priority |-> "high"] }

\* A row as createTask and updateTask of {completed} leave it.
ListRow(id, u, b, done, t) ==
    IF done THEN UpdateFields(NewTask(id, u, b, t), [completed |-> TRUE])
    ELSE NewTask(id, u, b, t)

\* Owner, creation body and completion of the listed rows: every kind of
\* row for user 1, two kinds for user 2.
ListRowKinds ==
    ({1} \X ListBodies \X BOOLEAN)
      \cup { <<2, [title |-> TitleA], FALSE>>,
             <<2, [title |-> TitleA, dueDate |-> 1, priority |-> "high"], TRUE>> }

\* The rows that may have id i.
ListRows(i) == { ListRow(i, k[1], k[2], k[3], t) : k \in ListRowKinds, t \in 0..MaxClock }

\* The tables of at most MaxRows rows: ids and creation times grow together.
ListTables ==
    UNION { { { f[i] : i \in 1..n } :
              f \in { g \in [1..n -> UNION { ListRows(i) : i \in 1..n }] :
                        /\ \A i \in 1..n : g[i].id = i
                        /\ \A i, j \in 1..n : i < j => g[i].createdAt <= g[j].createdAt } } :
            n \in 0..MaxRows }

\* Query strings of GET /api/tasks that pass the route's validators.
PageQueries ==
    { [page |-> p, limit |-> l] : p \in {Num(1), Num(2), Num(3), HugePage}, l \in {Num(1), Num(2)} }
      \cup { [page |-> HugePage], <<>> }
CompletedQueries == { [completed |-> c] : c \in {"true", "false", "1", "0"} }
OtherQueries ==
    { [priority |-> "high", search |-> <<"A">>],
      [search |-> <<"a", "B">>, completed |-> "false", page |-> Num(1), limit |-> Num(1)] }
ListQueries == PageQueries \cup CompletedQueries \cup OtherQueries

InitList ==
    /\ users = SeedUsers
    /\ tasks \in ListTables
    /\ nextUserId = 3
    /\ nextTaskId = Cardinality(tasks) + 1
    /\ now = MaxClock
    /\ pending = {}
    /\ resp = NoResp
    /\ Serving

NextList == \E u \in UserIds, q \in ListQueries : GetTasks(u, q, pending)

SpecList == InitList /\ [][NextList]_vars

----------------------------------------------------------------------------
\* Accounts: the credential codec, the authentication guard and the auth
\* controllers.

\* Number of user ids the serial hands out.
MaxUsers == 2

\* A NULL lastAccess.
NoAccess == -1

\* JWT_EXPIRE, in clock instants.
TokenLifetime == 1

\* The password as the model's beforeCreate hook stores it.
Hash(password) == <<"bcrypt", password>>

\* user.validatePassword(password): the password against the stored hash.
ValidatePassword(user, password) == user.password = Hash(password)

\* jwt.sign(payload, JWT_SECRET, {expiresIn: JWT_EXPIRE}).
GenerarToken(payload) ==
    [id |-> payload.id, email |-> payload.email, name |-> payload.name,
     exp |-> now + TokenLifetime, sig |-> "valid"]

\* jwt.verify(token, JWT_SECRET): the signature is checked, then the expiry;
\* the result is the payload or the name of the error thrown.
VerificarTokenIgnoringExpiry(token) ==
    IF token.sig # "valid" THEN [error |-> "JsonWebTokenError"]
    ELSE [error |-> "none", id |-> token.id]
VerificarToken(token) ==
    IF token.sig # "valid" THEN [error |-> "JsonWebTokenError"]
    ELSE IF now >= token.exp THEN [error |-> "TokenExpiredError"]
    ELSE [error |-> "none", id |-> token.id]

\* The row without one attribute (attributes: { exclude: [...] }).
ExcludeNothing(row, field) == row
Exclude(row, field) == [f \in DOMAIN row \ {field} |-> row[f]]

\* User.findByPk(id, { attributes: { exclude: ['password'] } }).
FindByPkActive(id) == { Exclude(u, "password") : u \in { x \in users : x.id = id /\ x.active } }
FindByPk(id) == { Exclude(u, "password") : u \in { x \in users : x.id = id } }

\* User.findOne({ where: { email } }).
FindByEmail(email) == { u \in users : u.email = email }

\* The user object register and login put in the response.
PublicUser(user) == [id |-> user.id, name |-> user.name, email |-> user.email]

\* Request bodies of POST /api/auth/register after validation.
RegisterBodies ==
    { [name |-> "ana", email |-> "a@x", password |-> "Pw1"],
      [name |-> "cy", email |-> "a@x", password |-> "Pw2"],
      [name |-> "cy", email |-> "c@x", password |-> "Pw2"] }

\* Request bodies of POST /api/auth/login after validation.
LoginBodies ==
    { [email |-> "a@x", password |-> "Pw1"],
      [email |-> "a@x", password |-> "Pw2"],
      [email |-> "c@x", password |-> "Pw1"] }

\* Authorization headers: none, another scheme, a bearer token with a
\* forged signature, and signed bearer tokens for stored and unknown ids.
AuthHeaders ==
    { [scheme |-> "none"], [scheme |-> "Basic"],
      [scheme |-> "Bearer", token |-> [id |-> 1, exp |-> MaxClock + 1, sig |-> "forged"]] }
      \cup { [scheme |-> "Bearer", token |-> [id |-> i, exp |-> e, sig |-> "valid"]] :
               i \in 1..MaxUsers, e \in 1..(MaxClock + 1) }

\* The routes behind protectRoute and the bodies they are sent.
ProtectedRoutes == {"profile", "updateProfile", "getTask"}
BodiesOf(route) ==
    CASE route = "updateProfile" -> { [name |-> "zed"], <<>> }
      [] route = "getTask" -> { [id |-> 1] }
      [] OTHER -> { <<>> }

\* register up to its findOne: 400 when the email is stored.
RegisterFind(body) ==
    /\ IF FindByEmail(body.email) # {}
       THEN /\ resp' = [op |-> "register", req |-> body, status |-> 400,
                        message |-> "Email already registered"]
            /\ pending' = pending
       ELSE /\ Cardinality(pending) < MaxInflight
            /\ resp' = NoResp
            /\ pending' = pending \cup { [rid |-> FreeRid, op |-> "register", body |-> body] }
    /\ UNCHANGED <<users, tasks, nextUserId, nextTaskId, now>>
    /\ UNCHANGED lifecycle

\* register from User.create on.  The unique index on users.email rejects
\* a second row with the email: SequelizeUniqueConstraintError, which the
\* catch block answers with 500.
RegisterCreate(r) ==
    /\ r \in pending /\ r.op = "register"
    /\ IF FindByEmail(r.body.email) # {}
       THEN /\ resp' = [op |-> "register", req |-> r.body, status |-> 500,
                        message |-> "Error registering user"]
            /\ UNCHANGED <<users, nextUserId>>
       ELSE /\ nextUserId <= MaxUsers
            /\ LET user == [id |-> nextUserId, name |-> r.body.name, email |-> r.body.email,
                            password |-> Hash(r.body.password), active |-> TRUE,
                            lastAccess |-> NoAccess]
               IN /\ users' = users \cup {user}
                  /\ resp' = [op |-> "register", req |-> r.body, status |-> 201,
                              message |-> "User registered successfully",
                              user |-> PublicUser(user),
                              token |-> GenerarToken(PublicUser(user))]
            /\ nextUserId' = nextUserId + 1
    /\ pending' = pending \ {r}
    /\ UNCHANGED <<tasks, nextTaskId, now>>
    /\ UNCHANGED lifecycle

\* if (!user.active) of login.
IsActiveIgnored(user) == TRUE
IsActive(user) == user.active

LoginMessage(status) ==
    IF status = 403 THEN "User inactive. Contact administrator" ELSE "Invalid credentials"

\* login up to its findOne and the two tests that follow it with no await
\* between: 401 for no row, 403 for an inactive one, or suspended in
\* user.validatePassword holding the row.
LoginFind(body) ==
    /\ LET found == FindByEmail(body.email)
       IN IF found = {}
          THEN /\ resp' = [op |-> "login", req |-> body, status |-> 401,
                           message |-> LoginMessage(401)]
               /\ pending' = pending
          ELSE LET user == CHOOSE u \in found : TRUE
               IN IF ~IsActive(user)
                  THEN /\ resp' = [op |-> "login", req |-> body, status |-> 403,
                                   message |-> LoginMessage(403)]
                       /\ pending' = pending
                  ELSE /\ Cardinality(pending) < MaxInflight
                       /\ resp' = NoResp
                       /\ pending' = pending \cup
                             { [rid |-> FreeRid, op |-> "login", pc |-> "validate",
                                body |-> body, user |-> user] }
    /\ UNCHANGED <<users, tasks, nextUserId, nextTaskId, now>>
    /\ UNCHANGED lifecycle

\* login once validatePassword has resolved: 401 for a wrong password, or
\* user.update({ lastAccess: new Date() }) is called and awaited.
LoginValidate(r) ==
    /\ r \in pending /\ r.op = "login" /\ r.pc = "validate"
    /\ IF ~ValidatePassword(r.user, r.body.password)
       THEN /\ resp' = [op |-> "login", req |-> r.body, status |-> 401,
                        message |-> LoginMessage(401)]
            /\ pending' = pending \ {r}
       ELSE /\ resp' = NoResp
            /\ pending' = (pending \ {r}) \cup
                  { [rid |-> r.rid, op |-> "login", pc |-> "update", body |-> r.body,
                     user |-> r.user, lastAccess |-> now] }
    /\ UNCHANGED <<users, tasks, nextUserId, nextTaskId, now>>
    /\ UNCHANGED lifecycle

\* login once user.update has resolved: the row holds the lastAccess the
\* call was made with; the token is signed and 200 sent.
LoginUpdate(r) ==
    /\ r \in pending /\ r.op = "login" /\ r.pc = "update"
    /\ users' = { IF u.id = r.user.id THEN [u EXCEPT !.lastAccess = r.lastAccess] ELSE u :
                    u \in users }
    /\ resp' = [op |-> "login", req |-> r.body, status |-> 200,
                message |-> "Session started successfully",
                user |-> PublicUser(r.user),
                token |-> GenerarToken(PublicUser(r.user))]
    /\ pending' = pending \ {r}
    /\ UNCHANGED <<tasks, nextUserId, nextTaskId, now>>
    /\ UNCHANGED lifecycle

\* Length limits of the validators.
NameMin == 2
NameMax == 100
TitleMax == 200

\* The messages of the validators a request fails (bodies hold no
\* surrounding whitespace, so trim() leaves them as they are).
FieldErrors(route, body) ==
    CASE route = "updateProfile" ->
           IF "name" \notin DOMAIN body THEN {}
           ELSE (IF body.name = "" THEN {"Name cannot be empty"} ELSE {})
                \cup (IF Len(body.name) < NameMin \/ Len(body.name) > NameMax
                      THEN {"Name must be between 2 and 100 characters"} ELSE {})
      [] route = "createTask" ->
           IF "title" \notin DOMAIN body \/ body.title = <<>>
           THEN {"Title is required"}
           ELSE IF Len(body.title) > TitleMax
           THEN {"Title cannot exceed 200 characters"} ELSE {}
      [] OTHER -> {}

\* validarCampos lets the request through to the controller.
ValidRequest(route, body) == FieldErrors(route, body) = {}

\* validarCampos on a request the validators found errors in: 400 with
\* the messages, and the controller is not called.
ValidarCampos(route, header, body) ==
    [op |-> route, auth |-> header, body |-> body, status |-> 400,
     errors |-> FieldErrors(route, body)]

\* The 401 protectRoute answers a request with.
Reject(route, header, message) ==
    [op |-> route, auth |-> header, status |-> 401, message |-> message]

\* protectRoute on the arrival of a request, up to its await: the 401 it
\* answers for a header without a bearer token and for a token
\* verificarToken throws on, else the User.findByPk(decoded.id) it calls
\* and awaits for request rid.
ProtectRouteSync(route, header, body, rid) ==
    IF header.scheme # "Bearer"
    THEN [resp |-> Reject(route, header,
                     "Token not provided. Include token in Authorization header: Bearer <token>"),
          issued |-> {}]
    ELSE LET decoded == VerificarToken(header.token)
         IN IF decoded.error = "JsonWebTokenError"
            THEN [resp |-> Reject(route, header, "Invalid token"), issued |-> {}]
            ELSE IF decoded.error = "TokenExpiredError"
            THEN [resp |-> Reject(route, header, "Token expired"), issued |-> {}]
            ELSE [resp |-> NoResp,
                  issued |-> { [rid |-> rid, op |-> route, pc |-> "lookup",
                                auth |-> header, body |-> body, id |-> decoded.id] }]

\* A request arrives at a guarded route.
ProtectRoute(route, header, body) ==
    /\ LET arrival == ProtectRouteSync(route, header, body, FreeRid)
       IN /\ arrival.issued # {} => Cardinality(pending) < MaxInflight
          /\ resp' = arrival.resp
          /\ pending' = pending \cup arrival.issued
    /\ UNCHANGED <<users, tasks, nextUserId, nextTaskId, now>>
    /\ UNCHANGED lifecycle

\* profile: answers with req.user.
Profile(user) == [op |-> "profile", status |-> 200, user |-> user]

\* protectRoute once findByPk has resolved: 401 when there is no row, else
\* req.user is set and next() runs the rest of the chain up to its first
\* await: validarCampos answers 400, profile answers 200, any other
\* controller makes its first storage call.
ProtectRouteLookup(r) ==
    /\ r \in pending /\ "pc" \in DOMAIN r /\ r.pc = "lookup"
    /\ LET found == FindByPk(r.id)
       IN IF found = {}
          THEN /\ resp' = Reject(r.op, r.auth, "User not found or invalid token")
               /\ pending' = pending \ {r}
          ELSE LET user == CHOOSE u \in found : TRUE
               IN IF ~ValidRequest(r.op, r.body)
                  THEN /\ resp' = ValidarCampos(r.op, r.auth, r.body)
                       /\ pending' = pending \ {r}
                  ELSE IF r.op = "profile"
                  THEN /\ resp' = Profile(user)
                       /\ pending' = pending \ {r}
                  ELSE /\ resp' = NoResp
                       /\ pending' = (pending \ {r}) \cup
                             { [rid |-> r.rid, op |-> r.op, pc |-> "controller",
                                auth |-> r.auth, body |-> r.body, user |-> user] }
    /\ UNCHANGED <<users, tasks, nextUserId, nextTaskId, now>>
    /\ UNCHANGED lifecycle

\* updateProfile up to User.update({name}, {where: {id}}): an undefined
\* name is left out of the write.
UpdateProfileWrite(r) ==
    /\ r \in pending /\ r.op = "updateProfile" /\ r.pc = "controller"
    /\ users' = { IF u.id = r.user.id /\ "name" \in DOMAIN r.body
                  THEN [u EXCEPT !.name = r.body.name] ELSE u : u \in users }
    /\ pending' = (pending \ {r}) \cup { [r EXCEPT !.pc = "read"] }
    /\ resp' = NoResp
    /\ UNCHANGED <<tasks, nextUserId, nextTaskId, now>>
    /\ UNCHANGED lifecycle

\* updateProfile from its findByPk on: 200 with the row read back.
UpdateProfileRead(r) ==
    /\ r \in pending /\ r.op = "updateProfile" /\ r.pc = "read"
    /\ resp' = [op |-> "updateProfile", status |-> 200,
                message |-> "Profile updated successfully",
                user |-> CHOOSE u \in FindByPk(r.user.id) : TRUE]
    /\ pending' = pending \ {r}
    /\ UNCHANGED <<users, tasks, nextUserId, nextTaskId, now>>
    /\ UNCHANGED lifecycle

\* An administrator clears users.active in the database (no route does).
Deactivate(id) ==
    /\ \E u \in users : u.id = id /\ u.active
    /\ users' = { IF u.id = id THEN [u EXCEPT !.active = FALSE] ELSE u : u \in users }
    /\ resp' = NoResp
    /\ UNCHANGED <<tasks, nextUserId, nextTaskId, now, pending>>
    /\ UNCHANGED lifecycle

\* Time passes.
Tick ==
    /\ now < MaxClock
    /\ now' = now + 1
    /\ resp' = NoResp
    /\ UNCHANGED <<users, tasks, nextUserId, nextTaskId, pending>>
    /\ UNCHANGED lifecycle

InitAuth ==
    /\ users = {}
    /\ tasks = {}
    /\ nextUserId = 1
    /\ nextTaskId = 1
    /\ now = 0
    /\ pending = {}
    /\ resp = NoResp
    /\ Serving

\* Registration and login among themselves.
NextAuth ==
    \/ \E b \in RegisterBodies : RegisterFind(b)
    \/ \E r \in pending : RegisterCreate(r)
    \/ \E b \in LoginBodies : LoginFind(b)
    \/ \E r \in pending : LoginValidate(r)
    \/ \E r \in pending : LoginUpdate(r)
    \/ \E id \in 1..MaxUsers : Deactivate(id)
    \/ Tick

SpecAuth == InitAuth /\ [][NextAuth]_vars

\* The one account the guarded routes are exercised with.
GuardRegisterBodies == { [name |-> "ana", email |-> "a@x", password |-> "Pw1"] }
GuardLoginBodies == { [email |-> "a@x", password |-> "Pw1"] }

\* The guarded routes, with the registration and login that issue tokens.
NextGuard ==
    \/ \E b \in GuardRegisterBodies : RegisterFind(b)
    \/ \E r \in pending : RegisterCreate(r)
    \/ \E b \in GuardLoginBodies : LoginFind(b)
    \/ \E r \in pending : LoginValidate(r)
    \/ \E r \in pending : LoginUpdate(r)
    \/ \E route \in ProtectedRoutes, h \in AuthHeaders :
          \E b \in BodiesOf(route) : ProtectRoute(route, h, b)
    \/ \E r \in pending : ProtectRouteLookup(r)
    \/ \E r \in pending : UpdateProfileWrite(r)
    \/ \E r \in pending : UpdateProfileRead(r)
    \/ \E r \in pending :
          /\ r.op = "getTask" /\ r.pc = "controller"
          /\ GetTask(r.user.id, r.body.id, pending \ {r})
    \/ \E id \in 1..MaxUsers : Deactivate(id)
    \/ Tick

SpecGuard == InitAuth /\ [][NextGuard]_vars

----------------------------------------------------------------------------
\* Startup and shutdown of the process.

\* The process has not called process.exit.
Alive == exitCode = NoExit

\* if (i === retries - 1): the attempt that just failed was the last one.
LastAttemptNever(i) == FALSE
LastAttempt(i) == i = Retries - 1

\* Where startServer goes on once connectWithRetry has returned.
AfterConnect == IF startup.development THEN "sync" ELSE "listen"

\* One iteration of connectWithRetry's loop up to its next await:
\* sequelize.authenticate() resolves and the function returns true, or it
\* rejects and the function throws after the last attempt (startServer
\* catches and exits with 1) or goes to sleep.
Authenticate ==
    /\ Alive /\ startup.pc = "authenticate"
    /\ IF dbUp
       THEN /\ startup' = [startup EXCEPT !.pc = AfterConnect, !.connected = TRUE,
                                           !.attempts = @ + 1]
            /\ exitCode' = exitCode
       ELSE IF LastAttempt(startup.i)
       THEN /\ startup' = [startup EXCEPT !.pc = "failed", !.attempts = @ + 1,
                                           !.failures = @ + 1]
            /\ exitCode' = 1
       ELSE /\ startup' = [startup EXCEPT !.pc = "wait", !.attempts = @ + 1,
                                           !.failures = @ + 1]
            /\ exitCode' = exitCode
    /\ resp' = NoResp
    /\ UNCHANGED <<users, tasks, nextUserId, nextTaskId, now, pending, conns,
                   server, closers, pool, dbUp>>

\* The setTimeout of delay ms resolves, i++, and the loop tests i < retries:
\* the next attempt, or the end of the loop (the function returns undefined
\* and startServer goes on).
WaitDelay ==
    /\ Alive /\ startup.pc = "wait"
    /\ startup' = [startup EXCEPT !.i = @ + 1, !.slept = @ + Delay,
                                  !.pc = IF startup.i + 1 < Retries
                                         THEN "authenticate" ELSE AfterConnect]
    /\ resp' = NoResp
    /\ UNCHANGED <<users, tasks, nextUserId, nextTaskId, now, pending, conns,
                   server, closers, pool, dbUp, exitCode>>

\* sequelize.sync({ alter: true }) in development: on to listen, or the
\* catch block exits with 1.
Sync ==
    /\ Alive /\ startup.pc = "sync"
    /\ IF dbUp
       THEN /\ startup' = [startup EXCEPT !.pc = "listen"]
            /\ exitCode' = exitCode
       ELSE /\ startup' = [startup EXCEPT !.pc = "syncFailed"]
            /\ exitCode' = 1
    /\ resp' = NoResp
    /\ UNCHANGED <<users, tasks, nextUserId, nextTaskId, now, pending, conns,
                   server, closers, pool, dbUp>>

\* app.listen and the registration of the SIGTERM and SIGINT handlers.
Listen ==
    /\ Alive /\ startup.pc = "listen"
    /\ startup' = [startup EXCEPT !.pc = "running"]
    /\ server' = "listening"
    /\ resp' = NoResp
    /\ UNCHANGED <<users, tasks, nextUserId, nextTaskId, now, pending, conns,
                   closers, pool, dbUp, exitCode>>

\* PostgreSQL comes up or goes down while the process starts.
DbChange ==
    /\ Alive /\ startup.pc \in {"authenticate", "wait", "sync"}
    /\ dbUp' = ~dbUp
    /\ resp' = NoResp
    /\ UNCHANGED <<users, tasks, nextUserId, nextTaskId, now, pending, conns,
                   startup, server, closers, pool, exitCode>>

\* The request of connection c that has not been answered.
Busy(c) == \E r \in pending : r.rid = c

\* A keep-alive connection that has answered its requests.
Idle(c) == conns[c] = "used" /\ ~Busy(c)

\* gracefulShutdown(signal): server.close(callback) stops the server from
\* accepting, closes the idle connections and registers the callback for
\* the server's 'close' event; a connection with a request unanswered and
\* one that has sent no request stay open.
GracefulShutdown ==
    /\ Alive /\ startup.pc = "running"
    /\ Len(closers) < MaxSignals
    /\ closers' = Append(closers, "registered")
    /\ server' = IF server = "listening" THEN "closing" ELSE server
    /\ conns' = [c \in DOMAIN conns |-> IF Idle(c) THEN "closed" ELSE conns[c]]
    /\ resp' = NoResp
    /\ UNCHANGED <<users, tasks, nextUserId, nextTaskId, now, pending,
                   startup, pool, dbUp, exitCode>>

\* SIGTERM or SIGINT before startServer has registered its handlers: the
\* process is terminated by the signal, with no exit code.
SignalKill ==
    /\ Alive /\ startup.pc # "running"
    /\ exitCode' = Signalled
    /\ resp' = NoResp
    /\ UNCHANGED <<users, tasks, nextUserId, nextTaskId, now, pending, conns,
                   startup, server, closers, pool, dbUp>>

\* The server emits 'close' once it has stopped listening and no connection
\* is left open, whether or not a handler is still running.
Drained == \A c \in DOMAIN conns : conns[c] = "closed"

\* The 'close' event: every registered callback runs up to its
\* await sequelize.close().
ServerClose ==
    /\ Alive /\ server \in {"closing", "closed"}
    /\ Drained
    /\ \E k \in DOMAIN closers : closers[k] = "registered"
    /\ server' = "closed"
    /\ closers' = [k \in DOMAIN closers |->
                     IF closers[k] = "registered" THEN "closing" ELSE closers[k]]
    /\ pool' = IF pool = "open" THEN "closing" ELSE pool
    /\ resp' = NoResp
    /\ UNCHANGED <<users, tasks, nextUserId, nextTaskId, now, pending, conns,
                   startup, dbUp, exitCode>>

\* sequelize.close() of callback k settles: process.exit(0) when it
\* resolved, process.exit(1) when it rejected.
CloseSettled(k, resolved) ==
    /\ Alive /\ k \in DOMAIN closers /\ closers[k] = "closing"
    /\ closers' = [closers EXCEPT ![k] = "done"]
    /\ pool' = IF resolved THEN "closed" ELSE "failed"
    /\ exitCode' = IF resolved THEN 0 ELSE 1
    /\ resp' = NoResp
    /\ UNCHANGED <<users, tasks, nextUserId, nextTaskId, now, pending, conns,
                   startup, server, dbUp>>

\* The listening server accepts new connections.
Accepting == Alive /\ server = "listening"

\* A client opens connection c.
ClientConnect(c) ==
    /\ Accepting
    /\ conns[c] = "closed" /\ ~Busy(c)
    /\ conns' = [conns EXCEPT ![c] = "fresh"]
    /\ resp' = NoResp
    /\ UNCHANGED <<users, tasks, nextUserId, nextTaskId, now, pending,
                   startup, server, closers, pool, dbUp, exitCode>>

\* The client closes connection c, with or without an answer outstanding;
\* a handler that is running goes on.
ClientDisconnect(c) ==
    /\ Alive /\ conns[c] # "closed"
    /\ conns' = [conns EXCEPT ![c] = "closed"]
    /\ resp' = NoResp
    /\ UNCHANGED <<users, tasks, nextUserId, nextTaskId, now, pending,
                   startup, server, closers, pool, dbUp, exitCode>>

\* A request arrives on the open connection c, also after server.close,
\* and runs protectRoute up to its await.
Arrive(c, route, header, body) ==
    /\ Alive /\ conns[c] # "closed" /\ ~Busy(c)
    /\ LET arrival == ProtectRouteSync(route, header, body, c)
       IN /\ resp' = arrival.resp
          /\ pending' = pending \cup arrival.issued
    /\ conns' = [conns EXCEPT ![c] = "used"]
    /\ UNCHANGED <<users, tasks, nextUserId, nextTaskId, now,
                   startup, server, closers, pool, dbUp, exitCode>>

\* The handlers of 'uncaughtException' and 'unhandledRejection':
\* process.exit(1) whenever such an error is raised.
FatalError ==
    /\ Alive
    /\ exitCode' = 1
    /\ resp' = NoResp
    /\ UNCHANGED <<users, tasks, nextUserId, nextTaskId, now, pending, conns,
                   startup, server, closers, pool, dbUp>>

\* The requests the server is exercised with: POST /api/tasks without a
\* token and with the token of a stored user.
ServerUsers == {1}
ServerHeaders ==
    {[scheme |-> "none"]}
    \cup { [scheme |-> "Bearer", token |-> [id |-> u, exp |-> MaxClock + 1, sig |-> "valid"]] :
             u \in ServerUsers }

InitServer ==
    /\ users = SeedUsers
    /\ tasks = {}
    /\ nextUserId = 3
    /\ nextTaskId = 1
    /\ now = 0
    /\ pending = {}
    /\ resp = NoResp
    /\ \E development \in BOOLEAN :
          startup = [pc |-> "authenticate", i |-> 0, attempts |-> 0, failures |-> 0,
                     slept |-> 0, connected |-> FALSE, development |-> development]
    /\ server = "none"
    /\ conns = [c \in 1..MaxConns |-> "closed"]
    /\ closers = <<>>
    /\ pool = "open"
    /\ dbUp \in BOOLEAN
    /\ exitCode = NoExit

\* The process from startServer to process.exit, serving task requests
\* while it listens.
NextServer ==
    \/ Authenticate
    \/ WaitDelay
    \/ Sync
    \/ Listen
    \/ DbChange
    \/ GracefulShutdown
    \/ ServerClose
    \/ \E k \in 1..MaxSignals, resolved \in BOOLEAN : CloseSettled(k, resolved)
    \/ FatalError
    \/ SignalKill
    \/ \E c \in 1..MaxConns : ClientConnect(c)
    \/ \E c \in 1..MaxConns : ClientDisconnect(c)
    \/ \E c \in 1..MaxConns, h \in ServerHeaders, b \in CreateBodies :
          Arrive(c, "createTask", h, b)
    \/ Alive /\ \E r \in pending : ProtectRouteLookup(r)
    \/ Alive /\ \E r \in pending :
          /\ r.op = "createTask" /\ r.pc = "controller"
          /\ CreateTask(r.user.id, r.body, pending \ {r})

\* Every await of startServer settles: authenticate resolves or rejects,
\* the timer fires.
SpecServer ==
    /\ InitServer
    /\ [][NextServer]_vars
    /\ WF_vars(Authenticate)
    /\ WF_vars(WaitDelay)

----------------------------------------------------------------------------
\* The middleware chain of a guarded route: protectRoute, the validators,
\* validarCampos, the controller.

\* Routes with validators behind protectRoute and the bodies they are sent,
\* one that passes the validators and one that does not.
ValidatedRoutes == {"updateProfile", "createTask"}
ChainBodiesOf(route) ==
    IF route = "updateProfile"
    THEN { [name |-> "zed"], [name |-> "z"] }
    ELSE { [title |-> TitleA], [description |-> DescB] }

\* PUT /api/auth/profile and POST /api/tasks through their middleware
\* chains, with the registration that stores the user.
NextChain ==
    \/ \E b \in GuardRegisterBodies : RegisterFind(b)
    \/ \E r \in pending : RegisterCreate(r)
    \/ \E route \in ValidatedRoutes, h \in AuthHeaders :
          \E b \in ChainBodiesOf(route) : ProtectRoute(route, h, b)
    \/ \E r \in pending : ProtectRouteLookup(r)
    \/ \E r \in pending : UpdateProfileWrite(r)
    \/ \E r \in pending : UpdateProfileRead(r)
    \/ \E r \in pending :
          /\ r.op = "createTask" /\ r.pc = "controller"
          /\ CreateTask(r.user.id, r.body, pending \ {r})
    \/ Tick

SpecChain == InitAuth /\ [][NextChain]_vars

----------------------------------------------------------------------------
\* Claims about the task routes.

ByIdOps == {"getTask", "updateTask", "deleteTask"}

\* C1: whenever getTask, updateTask or deleteTask answers a caller about the
\* id of a task stored for another user, the answer is 404 and the tasks
\* table is left as it was.
OwnershipIsolation ==
    [][ (/\ resp'.op \in ByIdOps
         /\ \E t \in tasks : t.id = resp'.id /\ t.userId # resp'.user)
        => (resp'.status = 404 /\ tasks' = tasks) ]_vars

\* C1 witness: a delete by a user who does not own the stored task got 404.
OwnershipIsolationWitness ==
    /\ resp.op = "deleteTask"
    /\ resp.status = 404
    /\ \E t \in tasks : t.id = resp.id /\ t.userId # resp.user

\* C5: a successful updateTask leaves in the stored row exactly the body's
\* values in the updatable fields the body holds and the prior values in
\* every other field (id and userId among them), and touches no other row.
PartialUpdate ==
    [][ (resp'.op = "updateTask" /\ resp'.status = 200)
        => /\ \A t \in tasks :
                IF t.id = resp'.id
                THEN \E t2 \in tasks' :
                        /\ DOMAIN t2 = DOMAIN t
                        /\ \A f \in DOMAIN t :
                              t2[f] = IF f \in UpdatableFields /\ f \in DOMAIN resp'.body
                                      THEN resp'.body[f]
                                      ELSE t[f]
                ELSE t \in tasks'
           /\ Cardinality(tasks') = Cardinality(tasks) ]_vars

\* C5 witness: an update with only {completed: true} answered 200 and the
\* stored row still has the title, description, due date and priority it
\* was created with.
PartialUpdateWitness ==
    /\ resp.op = "updateTask"
    /\ resp.status = 200
    /\ DOMAIN resp.body = {"completed"}
    /\ \E t \in tasks :
          /\ t.id = resp.id
          /\ t.completed
          /\ t.title = TitleAb /\ t.description = DescB
          /\ t.dueDate = 2 /\ t.priority = "low"

\* C6: every statistics response has total = completed + pending and its
\* byPriority values sum to total.
StatisticsConsistent ==
    resp.op = "getStatistics"
    => /\ resp.total = resp.completed + resp.pending
       /\ SumOver(resp.byPriority, DOMAIN resp.byPriority) = resp.total

\* C11: updateTask answers 200 'Task updated successfully' only for a task
\* that is in storage when the update writes; an update whose task was
\* deleted after its findOne answers 404.
UpdateOnlyStoredTask ==
    [][ (resp'.op = "updateTask" /\ resp'.status = 200)
        => \E t \in tasks : t.id = resp'.id ]_vars

----------------------------------------------------------------------------
\* Claims about the listing.

\* The rows of a listing response as a set.
Listed == { resp.tasks[i] : i \in DOMAIN resp.tasks }

\* C7: a listing with a completed filter holds only the caller's tasks whose
\* completed flag is the boolean the filter value denotes ('true' and '1'
\* denote true, 'false' and '0' denote false).
CompletedFilterDenotes ==
    (resp.op = "getTasks" /\ "completed" \in DOMAIN resp.query)
    => \A t \in Listed :
          /\ t.userId = resp.user
          /\ t.completed = (resp.query.completed \in {"true", "1"})

\* C8: with N the number of the caller's tasks that satisfy the filters,
\* total = N, totalPages = ceil(N / limit), the page holds positions
\* (page-1)*limit .. page*limit-1 of an ordered result, and a page beyond
\* totalPages is empty.
PaginationExact ==
    resp.op = "getTasks"
    => LET q       == resp.query
           matched == { t \in tasks : Where(resp.user, q, t) }
           n       == Cardinality(matched)
           limit   == Opt(q, "limit", Num(10)).m
           page    == Opt(q, "page", Num(1))
       IN /\ resp.total = n
          /\ resp.totalPages * limit >= n
          /\ (resp.totalPages - 1) * limit < n \/ (n = 0 /\ resp.totalPages = 0)
          /\ IF page.e > 0 \/ page.m > resp.totalPages
             THEN resp.tasks = <<>>
             ELSE \E ordered \in OrderedRows(matched) :
                     /\ Len(resp.tasks) <= limit
                     /\ \A k \in 1..n :
                           ((page.m - 1) * limit < k /\ k <= page.m * limit)
                           => /\ k - (page.m - 1) * limit \in DOMAIN resp.tasks
                              /\ resp.tasks[k - (page.m - 1) * limit] = ordered[k]
                     /\ \A i \in DOMAIN resp.tasks : (page.m - 1) * limit + i <= n

\* C9: in every listing no completed task precedes an incomplete one; among
\* tasks of equal completion a task without due date is followed only by
\* tasks without due date and due dates do not decrease; among tasks of
\* equal completion and due date creation times do not increase.
ListingOrdered ==
    resp.op = "getTasks"
    => \A i, j \in DOMAIN resp.tasks :
          i < j =>
            LET a == resp.tasks[i]
                b == resp.tasks[j]
            IN /\ ~(a.completed /\ ~b.completed)
               /\ a.completed = b.completed
                    => /\ (a.dueDate = NoDate => b.dueDate = NoDate)
                       /\ (a.dueDate # NoDate /\ b.dueDate # NoDate => a.dueDate <= b.dueDate)
                       /\ (a.dueDate = b.dueDate => a.createdAt >= b.createdAt)

\* C9 witness: a listing of two incomplete tasks, the first with a due date,
\* the second, created earlier, without.
ListingOrderedWitness ==
    /\ resp.op = "getTasks"
    /\ Len(resp.tasks) = 2
    /\ ~resp.tasks[1].completed /\ ~resp.tasks[2].completed
    /\ resp.tasks[1].dueDate # NoDate /\ resp.tasks[2].dueDate = NoDate
    /\ resp.tasks[1].createdAt > resp.tasks[2].createdAt

----------------------------------------------------------------------------
\* Claims about the accounts.

\* C2: whenever register answers a request whose email is already stored,
\* the answer is 400 'Email already registered' and no user is created,
\* also for a registration that was in flight when the email was stored.
RegisterDuplicateConflict ==
    [][ (/\ resp'.op = "register"
         /\ \E u \in users : u.email = resp'.req.email)
        => /\ resp'.status = 400
           /\ resp'.message = "Email already registered"
           /\ users' = users ]_vars

\* What makes protectRoute reject a header when the request arrives.
BadHeader(h) ==
    \/ h.scheme # "Bearer"
    \/ h.token.sig # "valid"
    \/ now >= h.token.exp

\* The request protectRoute has handed on: to a controller that is making
\* its first storage call, or to profile, which has answered.
HandedOn(r) ==
    \/ \E q \in pending' : q.rid = r.rid /\ q.op = r.op /\ q.pc = "controller"
    \/ resp'.op = "profile" /\ resp'.status = 200 /\ r.op = "profile"

\* C3: a request to a guarded route without a bearer token, with a forged
\* or an expired token, or with a token for an id that is not stored, is
\* not handed to a controller: protectRoute answers it 401 and changes no
\* user and no task, with 'Invalid token' for a forged and 'Token expired'
\* for an expired token.
GuardRejects ==
    [][ /\ \A r \in pending' \ pending :
             ("pc" \in DOMAIN r /\ r.pc = "lookup") => ~BadHeader(r.auth)
        /\ \A r \in pending :
             ("pc" \in DOMAIN r /\ r.pc = "lookup" /\ r \notin pending')
             => IF \A u \in users : u.id # r.auth.token.id
                THEN /\ resp' = Reject(r.op, r.auth, "User not found or invalid token")
                     /\ ~HandedOn(r)
                     /\ pending' = pending \ {r}
                     /\ users' = users /\ tasks' = tasks
                ELSE HandedOn(r)
        /\ \A r \in pending' \ pending :
             ("pc" \in DOMAIN r /\ r.pc = "controller")
             => \E q \in pending : q.rid = r.rid /\ "pc" \in DOMAIN q
                                     /\ q.pc \in {"lookup", "controller"}
        /\ (resp'.op \in ProtectedRoutes /\ resp'.status = 401)
             => /\ pending' \subseteq pending
                /\ users' = users /\ tasks' = tasks
                /\ (resp'.message # "User not found or invalid token"
                      => BadHeader(resp'.auth) /\ pending' = pending)
                /\ (resp'.auth.scheme = "Bearer" /\ resp'.auth.token.sig # "valid"
                      => resp'.message = "Invalid token")
                /\ ((/\ resp'.auth.scheme = "Bearer"
                     /\ resp'.auth.token.sig = "valid"
                     /\ resp'.message # "User not found or invalid token")
                      => resp'.message = "Token expired") ]_vars

\* C3 witness: a request with an expired token of a stored user was
\* answered 401 'Token expired'.
GuardRejectsWitness ==
    /\ resp.op = "updateProfile"
    /\ resp.status = 401
    /\ resp.message = "Token expired"
    /\ users # {}

\* C4: the user object in a response of register, login, profile or
\* updateProfile has no password field.
NoPasswordInResponse ==
    (resp.op \in {"register", "login", "profile", "updateProfile"} /\ "user" \in DOMAIN resp)
    => "password" \notin DOMAIN resp.user

\* C4 witness: updateProfile answered with the row read back, whose stored
\* form holds the password hash.
NoPasswordInResponseWitness ==
    /\ resp.op = "updateProfile"
    /\ resp.status = 200
    /\ \E u \in users : u.id = resp.user.id /\ u.name = resp.user.name
                          /\ u.password = Hash("Pw1")

\* C10: login answers 401 for an unknown email and 403 for an inactive
\* user whatever the password; for an active user it answers 401 when the
\* password is wrong and goes on to 200 with a token only when it is right
\* (the user being the row login read); lastAccess is written by the step
\* that answers 200 and by no other step, and a failed login changes no
\* user.
LoginOutcomes ==
    [][ /\ \A b \in LoginBodies :
             LoginFind(b)
             => LET found == { u \in users : u.email = b.email }
                IN /\ users' = users
                   /\ (found = {} => resp'.op = "login" /\ resp'.status = 401)
                   /\ \A u \in found :
                        /\ (~u.active => resp'.op = "login" /\ resp'.status = 403)
                        /\ (u.active
                              => /\ resp' = NoResp
                                 /\ \E r \in pending' :
                                       /\ r.op = "login" /\ r.pc = "validate"
                                       /\ r.body = b /\ r.user = u)
        /\ \A r \in pending :
             LoginValidate(r)
             => /\ users' = users
                /\ (r.user.password # Hash(r.body.password)
                      => /\ resp'.op = "login" /\ resp'.status = 401
                         /\ resp'.message = "Invalid credentials")
                /\ (r.user.password = Hash(r.body.password)
                      => /\ resp' = NoResp
                         /\ \E q \in pending' : q.rid = r.rid /\ q.pc = "update")
        /\ (resp'.op = "login" /\ resp'.status = 200)
             => /\ "token" \in DOMAIN resp'
                /\ \E r \in pending :
                      /\ r.op = "login" /\ r.pc = "update" /\ r.body = resp'.req
                      /\ r.user.active /\ r.user.password = Hash(r.body.password)
                      /\ resp'.user.id = r.user.id
                      /\ \A u \in users' : u.id = r.user.id => u.lastAccess = r.lastAccess
        /\ \A u \in users, v \in users' :
             (u.id = v.id /\ u.lastAccess # v.lastAccess)
             => resp'.op = "login" /\ resp'.status = 200 /\ resp'.user.id = u.id ]_vars

\* C10 witness: a login with the right password of an inactive user was
\* answered 403 and the user's lastAccess is still unset.
LoginOutcomesWitness ==
    /\ resp.op = "login"
    /\ resp.status = 403
    /\ \E u \in users :
          /\ u.email = resp.req.email
          /\ ~u.active
          /\ u.password = Hash(resp.req.password)
          /\ u.lastAccess = NoAccess

----------------------------------------------------------------------------
\* Claims about the process.

\* connectWithRetry has returned to startServer.
Connected == startup.pc \in {"sync", "syncFailed", "listen", "running"}

\* What holds of connectWithRetry at every instant.
StartupSafe ==
    /\ startup.attempts <= Retries
    /\ Connected => /\ startup.connected
                    /\ startup.failures = startup.attempts - 1
                    /\ startup.slept = startup.failures * Delay
    /\ startup.pc = "failed" => /\ startup.failures = Retries
                                /\ startup.attempts = Retries
                                /\ startup.slept = (Retries - 1) * Delay
                                /\ exitCode = 1
    /\ ~startup.connected => server = "none"

\* C12: connectWithRetry ends (or the process has exited); it makes at most Retries attempts, returns
\* at its first successful attempt and not without one, has slept Delay
\* once between two attempts and not after the last, and after Retries
\* failed attempts the process exits with 1 and has never listened.
StartupRetry ==
    /\ []StartupSafe
    /\ <>(startup.pc \notin {"authenticate", "wait"} \/ ~Alive)

\* C12 witness: the last of Retries attempts failed and the process exited
\* with 1.
StartupRetryWitness ==
    /\ startup.pc = "failed"
    /\ startup.attempts = Retries
    /\ exitCode = 1
    /\ server = "none"

\* C13: once gracefulShutdown has run the application is handed no new
\* request (protectRoute neither calls findByPk for one nor answers one
\* 401); sequelize.close() is called only when the server has closed
\* with no request in flight; and gracefulShutdown exits with 0 only after
\* the close of the pool has completed and with 1 only after it has failed,
\* also when two signals were handled.
ShutdownOrdered ==
    [][ /\ closers # <<>>
             => /\ \A r \in pending' \ pending : r.pc # "lookup"
                /\ ~("status" \in DOMAIN resp' /\ resp'.status = 401)
        /\ closers' # <<>> => server' # "listening"
        /\ pool' # "open" => (pending' = {} /\ server' = "closed")
        /\ exitCode' = 0 => pool' = "closed"
        /\ (exitCode' = 1 /\ \E k \in DOMAIN closers' : closers'[k] = "done")
             => pool' = "failed" ]_vars

----------------------------------------------------------------------------
\* Claims about the middleware chain.

\* C14: a request to a guarded route that fails a validator is answered
\* 400 before its token is checked and its user looked up: protectRoute
\* answers no such request 401 and calls findByPk for no such request.
ValidationBeforeGuard ==
    [][ /\ \A r \in pending' \ pending :
             ("pc" \in DOMAIN r /\ r.pc = "lookup") => ValidRequest(r.op, r.body)
        /\ \A route \in ValidatedRoutes, h \in AuthHeaders :
             \A b \in ChainBodiesOf(route) :
                (ProtectRoute(route, h, b) /\ ~ValidRequest(route, b))
                => resp'.status = 400 ]_vars

\* C15: a signed token of a stored user is accepted by protectRoute at
\* every instant before its expiry, whatever has been done to the user's
\* row since: the guard answers a signed token 401 only when it has
\* expired or when no user with its id is stored, and the user it attaches
\* is the row as stored, active or not.
TokenOutlivesState ==
    [][ /\ (/\ resp'.op \in ProtectedRoutes
            /\ resp'.status = 401
            /\ resp'.auth.scheme = "Bearer"
            /\ resp'.auth.token.sig = "valid")
             => \/ resp'.message = "Token expired" /\ now >= resp'.auth.token.exp
                \/ /\ resp'.message = "User not found or invalid token"
                   /\ \A u \in users : u.id # resp'.auth.token.id
        /\ \A r \in pending :
             ("pc" \in DOMAIN r /\ r.pc = "lookup" /\ r \notin pending'
                /\ \E u \in users : u.id = r.auth.token.id)
             => \E u \in users :
                   /\ u.id = r.auth.token.id
                   /\ \/ \E q \in pending' : /\ q.rid = r.rid /\ q.pc = "controller"
                                              /\ q.user = Exclude(u, "password")
                      \/ resp' = Profile(Exclude(u, "password")) ]_vars

\* C15 witness: the guard has accepted the token of a user who was renamed
\* and deactivated, and attached that user to the request.
TokenOutlivesStateWitness ==
    \E r \in pending :
        /\ "pc" \in DOMAIN r /\ r.pc = "controller"
        /\ ~r.user.active
        /\ r.user.name = "zed"

====
